---- MODULE Spec2Model ----
(***************************************************************************)
(* Model of scheduled_bots/ontology/DOID_obographs_bot.py: the in-memory   *)
(* Disease Ontology graph (DOGraph, DONode), the statements a node builds  *)
(* for its Wikidata item, and the synchronization pass of main().          *)
(*                                                                         *)
(* Python values are represented as follows.  A string-valued field that   *)
(* may be None holds the string None.  A list that may be None             *)
(* (definition_xrefs, reference, s_xref, s_main) holds <<>> for None: the  *)
(* code only tests these for truthiness, and None and [] are both falsy.   *)
(* DONode.deprecated holds FALSE for None for the same reason.  A dict is  *)
(* a sequence of its values in insertion order.                            *)
(***************************************************************************)
EXTENDS Integers, Sequences, FiniteSets, TLC

None == "None"

\* Python truthiness of a string-or-None value.
Truthy(v) == v # None /\ v # ""

(***************************************************************************)
(* Vocabulary of the input documents.                                      *)
(***************************************************************************)
HAS_OBO_NAMESPACE == "http://www.geneontology.org/formats/oboInOwl#hasOBONamespace"
HAS_ALTERNATIVE_ID == "http://www.geneontology.org/formats/oboInOwl#hasAlternativeId"
OBO_DATE == "http://www.geneontology.org/formats/oboInOwl#date"
OBO_DEFAULT_NAMESPACE == "http://www.geneontology.org/formats/oboInOwl#default-namespace"

DOID_4 == "http://purl.obolibrary.org/obo/DOID_4"
DOID_7 == "http://purl.obolibrary.org/obo/DOID_7"
DOID_9 == "http://purl.obolibrary.org/obo/DOID_9"
DOID_11 == "http://purl.obolibrary.org/obo/DOID_11"
CHEBI_5 == "http://purl.obolibrary.org/obo/CHEBI_5"

\* The node IRIs of the documents, in document order.
NodeIds == <<DOID_4, DOID_7, DOID_9>>

W_CANCER == "url:http://en.wikipedia.org/wiki/Cancer"
W_CANCER_QUOTED == "url:http://en.wikipedia.org/wiki/C%61ncer"
W_FRAGMENT == "url:http://en.wikipedia.org/wiki/Influenza#Type_A"
W_EMPTY == "url:http://en.wikipedia.org/wiki/"
U_CDC == "url:http://www.cdc.gov/flu"

(***************************************************************************)
(* String functions of the source, tabulated over the strings above.       *)
(***************************************************************************)
\* node['id'].split("/")[-1].replace("_", ":")
Doid(id) ==
  CASE id = DOID_4 -> "DOID:4"
    [] id = DOID_7 -> "DOID:7"
    [] id = DOID_9 -> "DOID:9"
    [] id = DOID_11 -> "DOID:11"
    [] id = CHEBI_5 -> "CHEBI:5"

\* 'url:http://en.wikipedia.org/wiki/' in x
IsWikiXref(x) == x \in {W_CANCER, W_CANCER_QUOTED, W_FRAGMENT, W_EMPTY}

\* urllib.request.unquote(x.replace("url:http://en.wikipedia.org/wiki/", ""))
UnquotedTitle(x) ==
  CASE x = W_CANCER -> "Cancer"
    [] x = W_CANCER_QUOTED -> "Cancer"
    [] x = W_FRAGMENT -> "Influenza#Type_A"
    [] x = W_EMPTY -> ""

\* '#' in url
HasHash(url) == url = "Influenza#Type_A"

\* datetime.strptime(datestr, '%d:%m:%Y %H:%M') succeeds
DateParses(datestr) == datestr = "27:01:2017 15:43"

\* self.date.strftime('%Y-%m-%d')
DateYmd(datestr) == IF datestr = "27:01:2017 15:43" THEN "2017-01-27" ELSE None

(***************************************************************************)
(* Bounds.                                                                 *)
(***************************************************************************)
MaxEdges == 3
MaxDay == 1

(***************************************************************************)
(* State.                                                                  *)
(***************************************************************************)
VARIABLES
  graph,      \* d['graphs'][0]: [meta, nodes, edges], the parsed JSON document
  pc,         \* position of the run
  do_meta,    \* DOGraph.version, DOGraph.date, DOGraph.default_namespace
  nodes,      \* DOGraph.nodes: the retained DONodes, in insertion order
  tmp_nodes,  \* every tmp_node parse_nodes has constructed, in order
  release,    \* DOGraph.release
  i,          \* position of main's loop in nodes
  clock,      \* the current UTC day
  calls,      \* number of Release.get_or_create calls made
  log,        \* entries written by WDItemEngine.log("ERROR", ...)
  wd_item,    \* the item the latest create has handed to try_write, or <<>>
  invoked     \* ids of the nodes create has been invoked on, in order

vars == <<graph, pc, do_meta, nodes, tmp_nodes, release, i, clock, calls, log,
          wd_item, invoked>>

(***************************************************************************)
(* Sequence helpers.                                                       *)
(***************************************************************************)
Range(s) == {s[k] : k \in DOMAIN s}

\* [x['val'] for x in bpv if x['pred'] == pred]
ValsOf(bpv, pred) ==
  LET F[k \in 0..Len(bpv)] ==
        IF k = 0 THEN <<>>
        ELSE LET prev == F[k - 1]
             IN IF bpv[k].pred = pred THEN Append(prev, bpv[k].val) ELSE prev
  IN F[Len(bpv)]

\* key in d, for a dict d held as the sequence of its values
HasKey(d, id) == \E k \in DOMAIN d : d[k].id = id

IndexOf(d, id) == CHOOSE k \in DOMAIN d : d[k].id = id

\* d[node.id] = node
DictSet(d, node) ==
  IF HasKey(d, node.id) THEN [d EXCEPT ![IndexOf(d, node.id)] = node]
  ELSE Append(d, node)

(***************************************************************************)
(* DONode construction.                                                    *)
(***************************************************************************)
\* The wikilink parse_meta derives from definition_xrefs.
Wikilink(definition_xrefs) ==
  LET url_xrefs == SelectSeq(definition_xrefs, IsWikiXref)
  IN IF Len(url_xrefs) = 1 /\ ~HasHash(UnquotedTitle(url_xrefs[1]))
     THEN UnquotedTitle(url_xrefs[1])
     ELSE None

\* bp[HAS_OBO_NAMESPACE]: the set of values of the namespace predicate
NamespaceValues(meta) ==
  {meta.basicPropertyValues[k].val :
     k \in {j \in DOMAIN meta.basicPropertyValues :
              meta.basicPropertyValues[j].pred = HAS_OBO_NAMESPACE}}

\* A slip the assertion could hold: len(...) >= 1.
NamespaceAssertion_AtLeastOne(meta) == Cardinality(NamespaceValues(meta)) >= 1

\* assert len(bp[HAS_OBO_NAMESPACE]) == 1
NamespaceAssertion(meta) == Cardinality(NamespaceValues(meta)) = 1

\* DONode.parse_meta: [ok |-> the assertion passed, node |-> self afterwards]
DONode_parse_meta(self, meta) ==
  LET parsed == [self EXCEPT
                   !.definition = meta.definition,
                   !.definition_xrefs = meta.definition_xrefs,
                   !.deprecated = meta.deprecated,
                   !.xrefs = meta.xrefs,
                   !.wikilink = IF meta.definition_xrefs # <<>>
                                THEN Wikilink(meta.definition_xrefs)
                                ELSE None]
  IN IF ~meta.has_basicPropertyValues THEN [ok |-> TRUE, node |-> parsed]
     ELSE IF ~NamespaceAssertion(meta) THEN [ok |-> FALSE, node |-> parsed]
     ELSE [ok |-> TRUE,
           node |-> [parsed EXCEPT
                       !.namespace = CHOOSE v \in NamespaceValues(meta) : TRUE]]

\* DONode.__init__
DONode_init(node) ==
  LET self == [id |-> node.id,
               doid |-> Doid(node.id),
               lbl |-> node.lbl,
               type |-> node.type,
               namespace |-> None,
               definition |-> None,
               definition_xrefs |-> <<>>,
               deprecated |-> FALSE,
               wikilink |-> None,
               xrefs |-> <<>>,
               relationships |-> <<>>,
               reference |-> <<>>,
               s |-> <<>>,
               s_xref |-> <<>>,
               s_main |-> <<>>]
  IN IF node.has_meta THEN DONode_parse_meta(self, node.meta)
     ELSE [ok |-> TRUE, node |-> self]

(***************************************************************************)
(* DOGraph construction.                                                   *)
(***************************************************************************)
\* DOGraph.parse_meta: [ok, meta]; the [0] of an empty list and a date that
\* does not parse raise.
DOGraph_parse_meta(meta) ==
  LET dates == ValsOf(meta.basicPropertyValues, OBO_DATE)
      spaces == ValsOf(meta.basicPropertyValues, OBO_DEFAULT_NAMESPACE)
  IN IF dates = <<>> \/ ~DateParses(dates[1]) \/ spaces = <<>>
     THEN [ok |-> FALSE,
           meta |-> [version |-> meta.version, date |-> None,
                     default_namespace |-> None]]
     ELSE [ok |-> TRUE,
           meta |-> [version |-> meta.version, date |-> dates[1],
                     default_namespace |-> spaces[1]]]

\* A slip the filter could hold: the test of the type left out.
Retains_AnyType(tmp_node, default_namespace) ==
  /\ tmp_node.namespace = default_namespace
  /\ ~tmp_node.deprecated

\* The filter of parse_nodes.
Retains(tmp_node, default_namespace) ==
  /\ tmp_node.namespace = default_namespace
  /\ ~tmp_node.deprecated
  /\ tmp_node.type = "CLASS"

\* One round of the loop of parse_nodes: prev = [ok, nodes, tmp_nodes] so far,
\* made the DONode constructed.
ParseNodeStep(prev, made, default_namespace) ==
  IF ~prev.ok THEN prev
  ELSE IF ~made.ok THEN [prev EXCEPT !.ok = FALSE]
  ELSE [ok |-> TRUE,
        nodes |-> IF Retains(made.node, default_namespace)
                  THEN DictSet(prev.nodes, made.node)
                  ELSE prev.nodes,
        tmp_nodes |-> Append(prev.tmp_nodes, made.node)]

\* DOGraph.parse_nodes: [ok, nodes, tmp_nodes]; stops at the first node whose
\* construction raises.
parse_nodes(raw, default_namespace) ==
  LET F[k \in 0..Len(raw)] ==
        IF k = 0 THEN [ok |-> TRUE, nodes |-> <<>>, tmp_nodes |-> <<>>]
        ELSE ParseNodeStep(F[k - 1], DONode_init(raw[k]), default_namespace)
  IN F[Len(raw)]

\* A slip add_relationship could hold: insert(0, ...) for append.
add_relationship_Prepend(self, pred, obj) ==
  [self EXCEPT !.relationships = <<<<pred, obj>>>> \o @]

\* DONode.add_relationship
add_relationship(self, pred, obj) ==
  [self EXCEPT !.relationships = Append(@, <<pred, obj>>)]

\* One round of the loop of parse_edges.
ParseEdgeStep(d, edge) ==
  IF ~HasKey(d, edge.sub) THEN d
  ELSE [d EXCEPT ![IndexOf(d, edge.sub)] = add_relationship(@, edge.pred, edge.obj)]

\* DOGraph.parse_edges
parse_edges(d, edges) ==
  LET F[k \in 0..Len(edges)] ==
        IF k = 0 THEN d
        ELSE ParseEdgeStep(F[k - 1], edges[k])
  IN F[Len(edges)]

\* Counter([x.wikilink for x in nodes if x.wikilink])[w]
WikilinkCount(d, w) == Cardinality({k \in DOMAIN d : Truthy(d[k].wikilink) /\ d[k].wikilink = w})

\* DOGraph.dedupe_wikilinks
dedupe_wikilinks(d) ==
  [k \in DOMAIN d |->
     IF WikilinkCount(d, d[k].wikilink) > 1 THEN [d[k] EXCEPT !.wikilink = None]
     ELSE d[k]]

(***************************************************************************)
(* Input documents.                                                        *)
(***************************************************************************)
Meta(deprecated, has_bpv, bpv, definition, definition_xrefs, xrefs) ==
  [deprecated |-> deprecated, has_basicPropertyValues |-> has_bpv,
   basicPropertyValues |-> bpv, definition |-> definition,
   definition_xrefs |-> definition_xrefs, xrefs |-> xrefs]

NoMeta == Meta(FALSE, FALSE, <<>>, None, <<>>, <<>>)

Ns(v) == [pred |-> HAS_OBO_NAMESPACE, val |-> v]
AltId(v) == [pred |-> HAS_ALTERNATIVE_ID, val |-> v]

GoodGraphMeta ==
  [version |-> "http://purl.obolibrary.org/obo/doid/releases/2017-01-27/doid.owl",
   basicPropertyValues |-> <<[pred |-> OBO_DATE, val |-> "27:01:2017 15:43"],
                             [pred |-> OBO_DEFAULT_NAMESPACE, val |-> "disease_ontology"]>>]

\* A document whose meta lacks the default namespace makes DOGraph.parse_meta raise.
GraphMetas ==
  {GoodGraphMeta,
   [GoodGraphMeta EXCEPT !.basicPropertyValues = <<[pred |-> OBO_DATE, val |-> "27:01:2017 15:43"]>>]}

\* Sequences over S of length at most n.
SeqsUpTo(S, n) == UNION {[1..m -> S] : m \in 0..n}

\* The metadata blocks and types the construction claims range over.
GraphNodeMetas ==
  {[has_meta |-> TRUE, type |-> t, meta |-> Meta(dep, TRUE, bpv, None, <<>>, <<>>)] :
     t \in {"CLASS"}, dep \in {FALSE},
     bpv \in {<<Ns("disease_ontology")>>,
              <<Ns("disease_ontology"), Ns("disease_ontology")>>,
              <<Ns("disease_ontology"), Ns("symptoms")>>,
              <<Ns("symptoms")>>,
              <<AltId("DOID:99")>>,
              <<>>}}
  \cup {[has_meta |-> TRUE, type |-> t, meta |-> Meta(dep, TRUE, <<Ns("disease_ontology")>>, None, <<>>, <<>>)] :
          t \in {"PROPERTY", None}, dep \in {FALSE}}
  \cup {[has_meta |-> TRUE, type |-> "CLASS", meta |-> Meta(TRUE, TRUE, <<Ns("disease_ontology")>>, None, <<>>, <<>>)],
        [has_meta |-> TRUE, type |-> "CLASS", meta |-> Meta(FALSE, FALSE, <<>>, None, <<>>, <<>>)],
        [has_meta |-> FALSE, type |-> "CLASS", meta |-> NoMeta]}

\* The label the document gives a node.
Lbl(id) ==
  CASE id = DOID_4 -> "disease"
    [] id = DOID_7 -> "disease of anatomical entity"
    [] id = DOID_9 -> "cancer"

RawNode(id, shape) ==
  [id |-> id, lbl |-> Lbl(id), type |-> shape.type, has_meta |-> shape.has_meta,
   meta |-> shape.meta]

Document(m, ids, shapes, edges) ==
  [meta |-> m,
   nodes |-> [k \in DOMAIN ids |-> RawNode(ids[k], shapes[k])],
   edges |-> edges]

Blank(g) ==
  /\ graph = g
  /\ pc = "parse_meta"
  /\ do_meta = [version |-> None, date |-> None, default_namespace |-> None]
  /\ nodes = <<>>
  /\ tmp_nodes = <<>>
  /\ release = None
  /\ i = 0
  /\ clock = 0
  /\ calls = 0
  /\ log = <<>>
  /\ wd_item = <<>>
  /\ invoked = <<>>

\* Documents of two nodes of every shape, with edges from them and from a node
\* of another ontology.
GraphNodeIds == <<DOID_4, DOID_7>>

GraphEdges ==
  {[sub |-> s, pred |-> "is_a", obj |-> o] :
     s \in {DOID_4, DOID_7, CHEBI_5}, o \in {DOID_4, DOID_11}}

InitGraph ==
  \E m \in GraphMetas, shapes \in [DOMAIN GraphNodeIds -> GraphNodeMetas],
     edges \in SeqsUpTo(GraphEdges, MaxEdges) :
    Blank(Document(m, GraphNodeIds, shapes, edges))

\* Documents of three nodes whose definitions cite Wikipedia pages.
WikiNodeMetas ==
  {[has_meta |-> TRUE, type |-> "CLASS",
    meta |-> Meta(FALSE, TRUE, <<Ns(ns)>>, "A disease.", dx, <<>>)] :
     ns \in {"disease_ontology"},
     dx \in {<<>>, <<W_CANCER>>, <<W_CANCER_QUOTED>>, <<U_CDC, W_CANCER>>,
             <<W_EMPTY>>, <<W_FRAGMENT>>, <<W_CANCER, W_EMPTY>>}}
  \cup {[has_meta |-> TRUE, type |-> "CLASS",
         meta |-> Meta(FALSE, TRUE, <<Ns("symptoms")>>, "A symptom.", <<W_CANCER>>, <<>>)]}

InitWiki ==
  \E shapes \in [DOMAIN NodeIds -> WikiNodeMetas] :
    Blank(Document(GoodGraphMeta, NodeIds, shapes, <<>>))

(***************************************************************************)
(* DOGraph.__init__, one action per method it calls.                       *)
(***************************************************************************)
GraphParseMeta ==
  /\ pc = "parse_meta"
  /\ LET r == DOGraph_parse_meta(graph.meta)
     IN /\ do_meta' = r.meta
        /\ pc' = IF r.ok THEN "parse_nodes" ELSE "aborted"
  /\ UNCHANGED <<graph, nodes, tmp_nodes, release, i, clock, calls, log, wd_item, invoked>>

ParseNodes ==
  /\ pc = "parse_nodes"
  /\ LET r == parse_nodes(graph.nodes, do_meta.default_namespace)
     IN /\ nodes' = r.nodes
        /\ tmp_nodes' = r.tmp_nodes
        /\ pc' = IF r.ok THEN "parse_edges" ELSE "aborted"
  /\ UNCHANGED <<graph, do_meta, release, i, clock, calls, log, wd_item, invoked>>

ParseEdges ==
  /\ pc = "parse_edges"
  /\ nodes' = parse_edges(nodes, graph.edges)
  /\ pc' = "dedupe_wikilinks"
  /\ UNCHANGED <<graph, do_meta, tmp_nodes, release, i, clock, calls, log, wd_item, invoked>>

\* dedupe_wikilinks, self.release = None, and the return into main's loop.
DedupeWikilinks ==
  /\ pc = "dedupe_wikilinks"
  /\ nodes' = dedupe_wikilinks(nodes)
  /\ release' = None
  /\ i' = 1
  /\ pc' = "main"
  /\ UNCHANGED <<graph, do_meta, tmp_nodes, clock, calls, log, wd_item, invoked>>

(***************************************************************************)
(* Statements and references (wdi_core objects).                           *)
(***************************************************************************)
PROPS ==
  [subclass_of |-> "P279", has_cause |-> "P828", instance_of |-> "P31",
   exact_match |-> "P2888", Disease_Ontology_ID |-> "P699"]

IDO_0000664 == "http://purl.obolibrary.org/obo/IDO_0000664"
RO_0001025 == "http://purl.obolibrary.org/obo/RO_0001025"
RO_0002451 == "http://purl.obolibrary.org/obo/RO_0002451"

\* DOGraph.edge_prop
edge_prop ==
  (IDO_0000664 :> "P828") @@ (RO_0001025 :> "P276") @@ ("is_a" :> "P279")

\* DOGraph.xref_prop
xref_prop ==
  ("ORDO" :> "P1550") @@ ("UMLS_CUI" :> "P2892") @@ ("DOID" :> "P699")
  @@ ("ICD10CM" :> "P494") @@ ("ICD9CM" :> "P493") @@ ("MSH" :> "P486")
  @@ ("NCI" :> "P1748") @@ ("OMIM" :> "P492")

\* DOGraph.doid_wdid = id_mapper('P699'): the items Wikidata already has.
doid_wdid == ("DOID:4" :> "Q12136") @@ ("DOID:7" :> "Q64598")

\* "http://purl.obolibrary.org/obo/{}".format(k.replace(":", "_"))
Purl(k) ==
  CASE k = "DOID:4" -> DOID_4
    [] k = "DOID:7" -> DOID_7
    [] k = "DOID:9" -> DOID_9
    [] k = "DOID:11" -> DOID_11

\* DOGraph.doid_purl_wdid
doid_purl_wdid ==
  [p \in {Purl(k) : k \in DOMAIN doid_wdid} |->
     doid_wdid[CHOOSE k \in DOMAIN doid_wdid : Purl(k) = p]]

X_ICD10 == "ICD10CM:C80.1"
X_SNOMED == "SNOMEDCT_US_2016_03_01:363346000"
X_NOCOLON == "NCI_C9305"

\* xref.split(":", 1): the parts; one part only when xref holds no colon
SplitXref(xref) ==
  CASE xref = X_ICD10 -> <<"ICD10CM", "C80.1">>
    [] xref = X_SNOMED -> <<"SNOMEDCT_US_2016_03_01", "363346000">>
    [] xref = X_NOCOLON -> <<"NCI_C9305">>

\* strftime("+%Y-%m-%dT00:00:00Z", gmtime()) on day number day
Strftime(day) == "+2017-02-0" \o ToString(day + 1) \o "T00:00:00Z"

Statement(type, value, prop_nr, references, is_reference) ==
  [type |-> type, value |-> value, prop_nr |-> prop_nr, references |-> references,
   is_reference |-> is_reference]

WDItemID(value, prop_nr, references) == Statement("WDItemID", value, prop_nr, references, FALSE)
WDExternalID(value, prop_nr, references) == Statement("WDExternalID", value, prop_nr, references, FALSE)
WDString(value, prop_nr, references) == Statement("WDString", value, prop_nr, references, FALSE)

miriam_ref ==
  <<Statement("WDItemID", "Q16335166", "P248", <<>>, TRUE),
    Statement("WDUrl", "http://www.ebi.ac.uk/miriam/main/collections/MIR:00000233", "P854", <<>>, TRUE)>>

\* "http://identifiers.org/doid/{}".format(self.doid)
IdentifiersUrl(doid) == "http://identifiers.org/doid/" \o doid

Raised(msg_type, msg) == <<[msg_type |-> msg_type, msg |-> msg]>>

(***************************************************************************)
(* The release and the reference block.  goc is what Release.get_or_create *)
(* returns if it is called: an item id, or None.  A result is a record     *)
(* [self, release, called, error]: the node and DOGraph.release afterwards,*)
(* the number of get_or_create calls made, and the exception raised (<<>>  *)
(* for none).                                                              *)
(***************************************************************************)
\* A slip create_release could hold: the falsy answer stored, nothing raised.
create_release_NoRaise(rel, goc) == [release |-> goc, called |-> 1, error |-> <<>>]

\* DOGraph.create_release: [release, called, error]
create_release(rel, goc) ==
  IF Truthy(goc) THEN [release |-> goc, called |-> 1, error |-> <<>>]
  ELSE [release |-> rel, called |-> 1,
        error |-> Raised("ValueError", "unable to create release")]

\* Lines 114-118 of create_ref_statement, after the release made says how
\* lines 112-113 ended.
DoReference(made, doid, day) ==
  IF made.error # <<>> THEN <<>>
  ELSE <<Statement("WDItemID", made.release, "P248", <<>>, TRUE),
         Statement("WDTime", Strftime(day), "P813", <<>>, TRUE),
         Statement("WDExternalID", doid, "P699", <<>>, TRUE)>>

\* A slip create_ref_statement could hold: the release created on every call.
EnsureRelease_Always(rel, goc) == create_release(rel, goc)

\* if not self.release: self.create_release()
EnsureRelease(rel, goc) ==
  IF ~Truthy(rel) THEN create_release(rel, goc)
  ELSE [release |-> rel, called |-> 0, error |-> <<>>]

\* DOGraph.create_ref_statement: [made |-> [release, called, error], do_reference]
create_ref_statement(rel, doid, goc, day) ==
  [made |-> EnsureRelease(rel, goc),
   do_reference |-> DoReference(EnsureRelease(rel, goc), doid, day)]

(***************************************************************************)
(* DONode statement building.                                              *)
(***************************************************************************)
\* self.reference = <the value create_ref_statement returned>
SetReference(self, r) ==
  [self |-> IF r.made.error = <<>> THEN [self EXCEPT !.reference = r.do_reference]
            ELSE self,
   release |-> r.made.release, called |-> r.made.called, error |-> r.made.error]

\* DONode.create_reference
create_reference(self, rel, goc, day) ==
  SetReference(self, create_ref_statement(rel, self.doid, goc, day))

\* A slip the statement builders could hold: the reference made on every call.
EnsureReference_Always(self, rel, goc, day) == create_reference(self, rel, goc, day)

\* if not self.reference: self.create_reference()
EnsureReference(self, rel, goc, day) ==
  IF self.reference = <<>> THEN create_reference(self, rel, goc, day)
  ELSE [self |-> self, release |-> rel, called |-> 0, error |-> <<>>]

\* One round of the loop of create_xref_statements: prev = [s_xref, error] so
\* far; an xref without a colon fails to unpack into prefix, code.
XrefStep(prev, parts, reference) ==
  IF prev.error # <<>> THEN prev
  ELSE IF Len(parts) < 2
  THEN [prev EXCEPT !.error =
          Raised("ValueError", "not enough values to unpack (expected 2, got 1)")]
  ELSE IF parts[1] \in DOMAIN xref_prop
  THEN [prev EXCEPT !.s_xref =
          Append(@, WDExternalID(parts[2], xref_prop[parts[1]], <<reference>>))]
  ELSE prev

\* Lines 245-250 of create_xref_statements: [s_xref, error]
XrefLoop(doid, xrefs, reference) ==
  LET F[k \in 0..Len(xrefs)] ==
        IF k = 0
        THEN [s_xref |-> <<WDExternalID(doid, PROPS.Disease_Ontology_ID, <<reference>>)>>,
              error |-> <<>>]
        ELSE XrefStep(F[k - 1], SplitXref(xrefs[k]), reference)
  IN F[Len(xrefs)]

SetXref(r, loop) == [r EXCEPT !.self.s_xref = loop.s_xref, !.error = loop.error]

AfterReferenceXref(r) ==
  IF r.error # <<>> THEN r
  ELSE SetXref(r, XrefLoop(r.self.doid, r.self.xrefs, r.self.reference))

\* DONode.create_xref_statements
create_xref_statements(self, rel, goc, day) ==
  AfterReferenceXref(EnsureReference(self, rel, goc, day))

\* A slip the loop could hold: relationship[1] for relationship[0] in the first test.
RelationshipStep_WrongIndex(prev, relationship, reference) ==
  IF relationship[2] \notin DOMAIN edge_prop THEN prev
  ELSE IF relationship[2] \notin DOMAIN doid_purl_wdid THEN prev
  ELSE Append(prev, WDItemID(doid_purl_wdid[relationship[2]],
                             edge_prop[relationship[1]], <<reference>>))

\* One round of the loop of create_main_statements.
RelationshipStep(prev, relationship, reference) ==
  IF relationship[1] \notin DOMAIN edge_prop THEN prev
  ELSE IF relationship[2] \notin DOMAIN doid_purl_wdid THEN prev
  ELSE Append(prev, WDItemID(doid_purl_wdid[relationship[2]],
                             edge_prop[relationship[1]], <<reference>>))

\* Lines 255-266 of create_main_statements.
RelationshipStatements(relationships, reference) ==
  LET F[k \in 0..Len(relationships)] ==
        IF k = 0 THEN <<>>
        ELSE RelationshipStep(F[k - 1], relationships[k], reference)
  IN F[Len(relationships)]

\* Lines 255-278 of create_main_statements.
MainStatements(self) ==
  RelationshipStatements(self.relationships, self.reference)
  \o <<WDString(self.id, PROPS.exact_match, <<self.reference>>)>>
  \o (IF self.doid # "DOID:4"
      THEN <<WDItemID("Q12136", PROPS.instance_of, <<self.reference>>)>>
      ELSE <<>>)
  \o <<WDString(IdentifiersUrl(self.doid), PROPS.exact_match, <<miriam_ref>>)>>

AfterReferenceMain(r) ==
  IF r.error # <<>> THEN r
  ELSE [r EXCEPT !.self.s_main = MainStatements(r.self)]

\* DONode.create_main_statements
create_main_statements(self, rel, goc, day) ==
  AfterReferenceMain(EnsureReference(self, rel, goc, day))

(***************************************************************************)
(* DONode.create.                                                          *)
(***************************************************************************)
DescriptionLimit == 250

\* current_descr.lower()
Lower(descr) == IF descr = "Human Disease" THEN "human disease" ELSE descr

\* A slip the description could hold: <= for <.
Description_Inclusive(current_descr, definition) ==
  IF /\ Lower(current_descr) \in {"", "human disease", "disease"}
     /\ Truthy(definition)
     /\ Len(definition) <= DescriptionLimit
  THEN definition
  ELSE IF Lower(current_descr) = "" THEN "human disease"
  ELSE current_descr

\* The English description of the item after lines 220-225.
Description(current_descr, definition) ==
  IF /\ Lower(current_descr) \in {"", "human disease", "disease"}
     /\ Truthy(definition)
     /\ Len(definition) < DescriptionLimit
  THEN definition
  ELSE IF Lower(current_descr) = "" THEN "human disease"
  ELSE current_descr

\* What the record of the node holds before create, and how the client's calls
\* end: ext = [engine, label, descr, write].
Externals ==
  [engine : {"ok", "raise"}, label : {"", "carcinoma"},
   descr : {"", "disease", "Human Disease", "rare disease"},
   write : {"ok", "raise"}]

\* The WDItemEngine object after lines 214-229.
Item(self, ext) ==
  [item_name |-> self.lbl,
   data |-> self.s,
   record_id |-> self.id,
   current_descr |-> ext.descr,
   label |-> IF ext.label = "" THEN self.lbl ELSE ext.label,
   description |-> Description(ext.descr, self.definition),
   sitelink |-> self.wikilink]

\* wdi_helpers.format_msg(self.doid, 'P699', None, str(e), msg_type=type(e))
format_msg(doid, error) ==
  [external_id |-> doid, external_id_prop |-> "P699", wdid |-> None,
   msg |-> error[1].msg, msg_type |-> error[1].msg_type]

\* A slip the handler could hold: except requests.ConnectionError.
Catches_ConnectionOnly(msg_type) == msg_type = "ConnectionError"

\* except Exception: the classes the handler of create catches
Catches(msg_type) == msg_type \in {"ValueError", "ConnectionError"}

\* self.s.extend(self.s_xref)
ExtendXref(x) == IF x.error # <<>> THEN x ELSE [x EXCEPT !.self.s = @ \o x.self.s_xref]

\* self.s.extend(self.s_main)
ExtendMain(m) == IF m.error # <<>> THEN m ELSE [m EXCEPT !.self.s = @ \o m.self.s_main]

\* Lines 214-232 of create on the node built: [error, item].
WriteItem(self, ext) ==
  IF ext.engine = "raise"
  THEN [error |-> Raised("ConnectionError", "item could not be loaded"), item |-> <<>>]
  ELSE [error |-> IF ext.write = "raise"
                  THEN Raised("ConnectionError", "item could not be written")
                  ELSE <<>>,
        item |-> Item(self, ext)]

\* An exception was raised and the handler of create catches it.
Caught(error) == error # <<>> /\ Catches(error[1].msg_type)

(***************************************************************************)
(* main: the loop over do.nodes.values().  One create takes three steps,   *)
(* each ending at a call of the client: Create (lines 206-211), CreateMain *)
(* (lines 212-213) and CreateWrite (lines 214-232); an exception in any of *)
(* them runs the handler (lines 233-237) and ends the create.              *)
(***************************************************************************)
GetOrCreateResults == {None, "Q27916"}

\* The try block goes on at next, or ends with the exception error: the handler
\* logs it and main goes on to the next node, or it leaves create.
Continue(error, next) ==
  /\ log' = IF Caught(error) THEN Append(log, format_msg(nodes[i].doid, error)) ELSE log
  /\ pc' = IF error = <<>> THEN next
           ELSE IF Caught(error) THEN "main" ELSE "aborted"
  /\ i' = IF error = <<>> /\ next # "main" THEN i ELSE i + 1

\* The statements of a step built as b on day.
Built(b, day, next) ==
  /\ nodes' = [nodes EXCEPT ![i] = b.self]
  /\ release' = b.release
  /\ calls' = calls + b.called
  /\ clock' = day
  /\ Continue(b.error, next)

\* node.create(write=write) on the next node of the loop, up to line 211.
Create ==
  /\ pc = "main"
  /\ i <= Len(nodes)
  /\ invoked' = Append(invoked, nodes[i].id)
  /\ wd_item' = <<>>
  /\ IF nodes[i].deprecated
     THEN /\ i' = i + 1
          /\ UNCHANGED <<nodes, release, calls, log, clock, pc>>
     ELSE \E goc \in GetOrCreateResults, day \in clock..MaxDay :
            \E x \in {create_xref_statements(nodes[i], release, goc, day)} :
              \E b \in {ExtendXref(x)} : Built(b, day, "create_main")
  /\ UNCHANGED <<graph, do_meta, tmp_nodes>>

\* Lines 212-213 of create.
CreateMain ==
  /\ pc = "create_main"
  /\ \E goc \in GetOrCreateResults, day \in clock..MaxDay :
       \E m \in {create_main_statements(nodes[i], release, goc, day)} :
         \E b \in {ExtendMain(m)} : Built(b, day, "create_write")
  /\ UNCHANGED <<graph, do_meta, tmp_nodes, wd_item, invoked>>

\* The item written as w.
Written(w) ==
  /\ wd_item' = w.item
  /\ Continue(w.error, "main")

\* Lines 214-232 of create.
CreateWrite ==
  /\ pc = "create_write"
  /\ \E ext \in Externals : \E w \in {WriteItem(nodes[i], ext)} : Written(w)
  /\ UNCHANGED <<graph, do_meta, nodes, tmp_nodes, release, clock, calls, invoked>>

MainReturn ==
  /\ pc = "main"
  /\ i > Len(nodes)
  /\ pc' = "done"
  /\ UNCHANGED <<graph, do_meta, nodes, tmp_nodes, release, i, clock, calls, log,
                 wd_item, invoked>>

(***************************************************************************)
(* Specifications.                                                         *)
(***************************************************************************)
NextGraph == GraphParseMeta \/ ParseNodes \/ ParseEdges \/ DedupeWikilinks

Next == NextGraph \/ Create \/ CreateMain \/ CreateWrite \/ MainReturn

\* The documents of the synchronization pass: nodes that are retained, with good
\* and bad xrefs, and one kind that is not retained.
SyncNodeMetas ==
  {[has_meta |-> TRUE, type |-> "CLASS",
    meta |-> Meta(FALSE, TRUE, <<Ns("disease_ontology")>>, "A disease.", <<>>, xrefs)] :
     xrefs \in {<<X_ICD10, X_SNOMED>>, <<X_ICD10, X_NOCOLON>>}}
  \cup {[has_meta |-> FALSE, type |-> "CLASS", meta |-> NoMeta]}

SyncEdges == {[sub |-> DOID_7, pred |-> "is_a", obj |-> DOID_4]}

Init ==
  \E m \in GraphMetas, shapes \in [DOMAIN NodeIds -> SyncNodeMetas],
     edges \in SeqsUpTo(SyncEdges, MaxEdges) :
    Blank(Document(m, NodeIds, shapes, edges))

\* Definitions of 10, 50, 249 and 250 characters.
Text10 == "aaaaaaaaaa"

Text50 == Text10 \o Text10 \o Text10 \o Text10 \o Text10

Text249 == Text50 \o Text50 \o Text50 \o Text50 \o Text10 \o Text10 \o Text10 \o Text10 \o "aaaaaaaaa"

Text250 == Text249 \o "a"

\* The definitions a node may have, about the limit of line 222.
Definitions == {None, "", "A disease of cellular proliferation.", Text249, Text250}

\* Documents of one node, with every kind of definition and of relationship.
StmtNodeMetas ==
  {[has_meta |-> TRUE, type |-> "CLASS",
    meta |-> Meta(FALSE, TRUE, <<Ns("disease_ontology")>>, d, <<>>, <<X_ICD10>>)] :
     d \in Definitions}

StmtEdges ==
  {[sub |-> DOID_7, pred |-> "is_a", obj |-> DOID_4],
   [sub |-> DOID_7, pred |-> IDO_0000664, obj |-> DOID_4],
   [sub |-> DOID_7, pred |-> RO_0002451, obj |-> DOID_4],
   [sub |-> DOID_7, pred |-> "is_a", obj |-> DOID_11]}

InitStmt ==
  \E shapes \in [{1} -> StmtNodeMetas], edges \in SeqsUpTo(StmtEdges, MaxEdges) :
    Blank(Document(GoodGraphMeta, <<DOID_7>>, shapes, edges))

\* The construction of the graph alone, over every shape of node and edge.
SpecGraph == InitGraph /\ [][NextGraph]_vars

\* The construction of the graph over definitions that cite Wikipedia.
SpecWiki == InitWiki /\ [][NextGraph]_vars

\* The whole run.
Spec == Init /\ [][Next]_vars

\* The whole run on one node.
SpecStmt == InitStmt /\ [][Next]_vars

\* The run is one sequential thread: it takes its next step whenever it has one.
LiveSpec == Init /\ [][Next]_vars /\ WF_vars(Next)

(***************************************************************************)
(* Properties.                                                             *)
(***************************************************************************)
Ids(d) == [k \in DOMAIN d |-> d[k].id]

\* parse_nodes has run (a run aborted by DOGraph.parse_meta has no namespace).
NodesStage ==
  pc \notin {"parse_meta", "parse_nodes"} /\ do_meta.default_namespace # None

NodesParsed == NodesStage /\ pc # "aborted"

EdgesParsed == pc \in {"dedupe_wikilinks", "main", "create_main", "create_write", "done"}

\* What the document says of a raw node.
RawRetained(r) ==
  /\ r.type = "CLASS"
  /\ ~(r.has_meta /\ r.meta.deprecated)
  /\ r.has_meta /\ r.meta.has_basicPropertyValues
  /\ NamespaceValues(r.meta) = {do_meta.default_namespace}

\* C1: in the pass of main, every exception of a node's create is caught inside
\* create, so the pass never aborts and ends with create invoked exactly once
\* on every retained node, in the order of the mapping.
C1_EveryNodeCreated ==
  /\ [](pc = "main" => <>(pc = "done" /\ invoked = Ids(nodes)))
  /\ [](\A a, b \in DOMAIN invoked : invoked[a] = invoked[b] => a = b)
  /\ [](pc = "aborted" => invoked = <<>>)

C1_Witness ==
  /\ pc = "done"
  /\ Len(invoked) = 3
  /\ Len(log) = 2
  /\ log[1].msg = "unable to create release"
  /\ log[2].msg = "not enough values to unpack (expected 2, got 1)"
  /\ wd_item # <<>>

ReleaseFailureLogged(k) == log[k].msg = "unable to create release"

\* C2, as claimed: once the creation of the release has failed, the node it
\* failed for is the last node create is invoked on.
C2_Original ==
  \A k \in DOMAIN log :
    ReleaseFailureLogged(k) => Doid(invoked[Len(invoked)]) = log[k].external_id

\* C2, amended: a create in which the client returns no release id logs the
\* ValueError for its node, leaves the node without statements and the release
\* unset, hands nothing to try_write, and the pass goes on to the next node.
C2_Amended ==
  [][(pc = "main" /\ i <= Len(nodes) /\ ~Truthy(release) /\ ~Truthy(release'))
       => /\ pc' = "main"
          /\ i' = i + 1
          /\ invoked' = Append(invoked, nodes[i].id)
          /\ log' = Append(log, [external_id |-> nodes[i].doid,
                                 external_id_prop |-> "P699", wdid |-> None,
                                 msg |-> "unable to create release",
                                 msg_type |-> "ValueError"])
          /\ nodes' = nodes
          /\ nodes[i].s = <<>> /\ nodes[i].reference = <<>>
          /\ wd_item' = <<>>]_vars

C2_Witness ==
  /\ Len(log) >= 1
  /\ ReleaseFailureLogged(1)
  /\ log[1].external_id = "DOID:4"
  /\ Len(invoked) >= 2
  /\ Truthy(release)
  /\ nodes[2].s # <<>>

\* C3: after parse_nodes a raw node is in the nodes mapping iff its type is
\* CLASS, it is not deprecated and its namespace is the default namespace, and
\* every retained node satisfies the three conditions.
C3_Retention ==
  NodesParsed =>
    /\ \A k \in DOMAIN graph.nodes :
         HasKey(nodes, graph.nodes[k].id) <=> RawRetained(graph.nodes[k])
    /\ \A k \in DOMAIN nodes :
         /\ nodes[k].type = "CLASS"
         /\ ~nodes[k].deprecated
         /\ nodes[k].namespace = do_meta.default_namespace

C3_Witness ==
  /\ NodesParsed
  /\ Len(nodes) = 1
  /\ \E k \in DOMAIN graph.nodes :
       ~graph.nodes[k].has_meta /\ ~HasKey(nodes, graph.nodes[k].id)

\* The number of distinct values the block gives the namespace predicate.
DistinctNamespaces(r) ==
  IF r.meta.has_basicPropertyValues THEN Cardinality(NamespaceValues(r.meta)) ELSE 0

ConstructedAt(k) == k <= Len(tmp_nodes)
FailedAt(k) == pc = "aborted" /\ k = Len(tmp_nodes) + 1

\* C4, as claimed: the metadata block of a node parses, yielding the namespace,
\* when it has exactly one namespace value, and fails when it has none or
\* several.
C4_Original ==
  NodesStage =>
    \A k \in DOMAIN graph.nodes :
      (graph.nodes[k].has_meta /\ (ConstructedAt(k) \/ FailedAt(k))) =>
        IF DistinctNamespaces(graph.nodes[k]) = 1
        THEN ConstructedAt(k) /\ {tmp_nodes[k].namespace} = NamespaceValues(graph.nodes[k].meta)
        ELSE FailedAt(k)

\* C4, amended: a block with a basicPropertyValues list parses, yielding the
\* namespace, when the list gives exactly one distinct namespace value, and
\* fails the assertion, aborting the construction, when it gives none or
\* several; a block without a basicPropertyValues list parses and leaves the
\* namespace None.
C4_Amended ==
  NodesStage =>
    \A k \in DOMAIN graph.nodes :
      (graph.nodes[k].has_meta /\ (ConstructedAt(k) \/ FailedAt(k))) =>
        IF ~graph.nodes[k].meta.has_basicPropertyValues
        THEN ConstructedAt(k) /\ tmp_nodes[k].namespace = None
        ELSE IF DistinctNamespaces(graph.nodes[k]) = 1
        THEN ConstructedAt(k) /\ {tmp_nodes[k].namespace} = NamespaceValues(graph.nodes[k].meta)
        ELSE FailedAt(k)

C4_Witness ==
  /\ NodesStage
  /\ pc = "aborted"
  /\ Len(tmp_nodes) = 1
  /\ graph.nodes[1].has_meta /\ ~graph.nodes[1].meta.has_basicPropertyValues
  /\ DistinctNamespaces(graph.nodes[2]) = 2

\* The (pred, obj) pairs of the edges of the document whose sub is id, in order.
PairsFrom(id) ==
  LET FromId(e) == e.sub = id
      es == SelectSeq(graph.edges, FromId)
  IN [k \in DOMAIN es |-> <<es[k].pred, es[k].obj>>]

\* C5: after parse_edges the relationships of every retained node are the
\* (pred, obj) pairs of the edges whose sub it is, in the order of the edges;
\* an edge whose sub is not retained is on no node.
C5_Relationships ==
  /\ EdgesParsed => \A k \in DOMAIN nodes : nodes[k].relationships = PairsFrom(nodes[k].id)
  /\ ~EdgesParsed => \A k \in DOMAIN nodes : nodes[k].relationships = <<>>

C5_Witness ==
  /\ EdgesParsed
  /\ \E k \in DOMAIN nodes :
       /\ Len(nodes[k].relationships) = 2
       /\ nodes[k].relationships[1] # nodes[k].relationships[2]
  /\ \E k \in DOMAIN graph.edges : ~HasKey(nodes, graph.edges[k].sub)

\* The wikilink retained node k was constructed with.
WikilinkBefore(k) == tmp_nodes[IndexOf(tmp_nodes, nodes[k].id)].wikilink

SharedBefore(k) ==
  /\ WikilinkBefore(k) # None
  /\ \E j \in DOMAIN nodes : j # k /\ WikilinkBefore(j) = WikilinkBefore(k)

\* C6: after dedupe_wikilinks every retained node whose wikilink another
\* retained node held has wikilink None, every other retained node keeps its
\* wikilink, and no two retained nodes share a wikilink that is not None.
C6_Deduped ==
  pc = "main" =>
    /\ \A k \in DOMAIN nodes :
         nodes[k].wikilink = IF SharedBefore(k) THEN None ELSE WikilinkBefore(k)
    /\ \A j, k \in DOMAIN nodes :
         (j # k /\ nodes[j].wikilink # None) => nodes[j].wikilink # nodes[k].wikilink

\* What the code does keep of C6: the same, for wikilinks that are not empty.
C6_DedupedNonEmpty ==
  pc = "main" =>
    /\ \A k \in DOMAIN nodes :
         WikilinkBefore(k) # "" =>
           nodes[k].wikilink = IF SharedBefore(k) THEN None ELSE WikilinkBefore(k)
    /\ \A j, k \in DOMAIN nodes :
         (j # k /\ Truthy(nodes[j].wikilink)) => nodes[j].wikilink # nodes[k].wikilink

Mappable(relationship) ==
  relationship[1] \in DOMAIN edge_prop /\ relationship[2] \in DOMAIN doid_purl_wdid

IsRelationshipStatement(st) ==
  st.type = "WDItemID" /\ st.prop_nr \in {edge_prop[p] : p \in DOMAIN edge_prop}

PropertyValues(sts) == [k \in DOMAIN sts |-> <<sts[k].prop_nr, sts[k].value>>]

ExpectedPropertyValues(relationships) ==
  LET rs == SelectSeq(relationships, Mappable)
  IN [k \in DOMAIN rs |-> <<edge_prop[rs[k][1]], doid_purl_wdid[rs[k][2]]>>]

\* C7: the item statements create_main_statements builds from the relationships
\* of a node are, in the order of the relationships, one per relationship whose
\* predicate is in edge_prop and whose object is in doid_purl_wdid, with the
\* mapped property and the mapped item; the other relationships give none.
C7_RelationshipStatements ==
  \A k \in DOMAIN nodes :
    nodes[k].s_main # <<>> =>
      PropertyValues(SelectSeq(nodes[k].s_main, IsRelationshipStatement))
        = ExpectedPropertyValues(nodes[k].relationships)

C7_Witness ==
  \E k \in DOMAIN nodes :
    /\ nodes[k].s_main # <<>>
    /\ Len(nodes[k].relationships) = 3
    /\ nodes[k].relationships[1][1] \notin DOMAIN edge_prop
    /\ Mappable(nodes[k].relationships[2])
    /\ nodes[k].relationships[3][2] \notin DOMAIN doid_purl_wdid

Usable(definition) == Truthy(definition) /\ Len(definition) < DescriptionLimit

Generic(descr) == descr = "" \/ Lower(descr) \in {"disease", "human disease"}

DefinitionOf(item) == nodes[IndexOf(nodes, item.record_id)].definition

\* C8, as claimed: a description that is empty or generic becomes the definition
\* when that is present and under 250 characters and "human disease" otherwise;
\* any other description is left as it is.
C8_Original ==
  wd_item # <<>> =>
    wd_item.description =
      IF Generic(wd_item.current_descr)
      THEN (IF Usable(DefinitionOf(wd_item)) THEN DefinitionOf(wd_item) ELSE "human disease")
      ELSE wd_item.current_descr

\* C8, amended: a description that is empty or generic becomes the definition
\* when that is present and under 250 characters; otherwise an empty description
\* becomes "human disease", and any other description, a generic one included,
\* is left as it is.
C8_Amended ==
  wd_item # <<>> =>
    wd_item.description =
      IF Generic(wd_item.current_descr) /\ Usable(DefinitionOf(wd_item))
      THEN DefinitionOf(wd_item)
      ELSE IF wd_item.current_descr = "" THEN "human disease"
      ELSE wd_item.current_descr

C8_Witness ==
  /\ wd_item # <<>>
  /\ wd_item.current_descr = "disease"
  /\ Truthy(DefinitionOf(wd_item)) /\ Len(DefinitionOf(wd_item)) = DescriptionLimit
  /\ wd_item.description = "disease"

\* C9: once the release field holds an id it never changes and get_or_create is
\* not called again; the field changes only from unset to the id one call of
\* get_or_create returned.
C9_ReleaseOnce ==
  [][/\ Truthy(release) => (release' = release /\ calls' = calls)
     /\ release' # release =>
          /\ ~Truthy(release)
          /\ release' \in GetOrCreateResults \ {None}
          /\ calls' = calls + 1]_vars

C9_Witness ==
  /\ Truthy(release)
  /\ calls = 2
  /\ Len(invoked) = 3
  /\ Len(log) = 1

IsResolverStatement(n, st) ==
  st.type = "WDString" /\ st.value = IdentifiersUrl(n.doid)

IsReleaseBlock(n) ==
  /\ Len(n.reference) = 3
  /\ n.reference[1].prop_nr = "P248" /\ n.reference[1].value = release
  /\ n.reference[2].prop_nr = "P813"
  /\ n.reference[3].prop_nr = "P699" /\ n.reference[3].value = n.doid

StatementsOf(n) == Range(n.s) \cup Range(n.s_xref) \cup Range(n.s_main)

\* C10: every statement a node has built carries the one reference block of the
\* node (stated in the release, retrieved, the DOID of the node), except the
\* resolver-URL exact match, which carries the MIRIAM block; the main statements
\* hold exactly one such exception.
C10_References ==
  \A k \in DOMAIN nodes :
    /\ \A st \in StatementsOf(nodes[k]) :
         IF IsResolverStatement(nodes[k], st)
         THEN st.references = <<miriam_ref>>
         ELSE st.references = <<nodes[k].reference>> /\ IsReleaseBlock(nodes[k])
    /\ nodes[k].s_main # <<>> =>
         Cardinality({j \in DOMAIN nodes[k].s_main :
                        IsResolverStatement(nodes[k], nodes[k].s_main[j])}) = 1

C10_Witness ==
  \E k \in DOMAIN nodes :
    /\ Len(nodes[k].s) = 6
    /\ nodes[k].reference[2].value = Strftime(0)
    /\ clock = 1
    /\ \E j \in DOMAIN nodes[k].s : IsRelationshipStatement(nodes[k].s[j])

====
